---- MODULE Spec2Model ----
(***************************************************************************)
(* Model of experiments/input_search.py: the harness that generates        *)
(* n_model random networks and, for each, searches a numerically valid     *)
(* input first by forward evaluation of pre-sampled candidates ("v3") and  *)
(* then by gradient search ("grad") over the same candidates.              *)
(*                                                                         *)
(* Real numbers (sweep centers, noise, tensor elements) are exact          *)
(* rationals, stored as integer multiples of 1 / Scale(n_step).            *)
(* SymbolNet and random_model_gen live in nnsmith.graph_gen, outside the   *)
(* script modelled here; their behaviour is a nondeterministic choice over *)
(* the outcomes the harness distinguishes.                                 *)
(*                                                                         *)
(* The second part models experiments/lemon_tf2onnx.py: the files found    *)
(* are ranked by modification time, converted one by one in a subprocess,  *)
(* and one line per attempted file is written to gentime.csv until the     *)
(* time limit is exceeded.  Times are whole seconds.                       *)
(***************************************************************************)
EXTENDS Integers, Sequences, FiniteSets, TLC

(* ------------------------------ bounds -------------------------------- *)
\* largest --n_model of a run
MaxModel == 3
\* largest --n_inp_sample of a run
MaxSample == 4
\* largest number n_model * n_inp_sample of candidates of a run
MaxEvals == 6
\* largest --exp-seed; the python random stream has period MaxSeed + 1
MaxSeed == 1
\* torch.rand returns one of the values 0/NoiseRes .. (NoiseRes-1)/NoiseRes
NoiseRes == 2

\* largest number of .h5 files found
MaxFiles == 3
\* largest st_mtime of a file, in seconds after the earliest possible one
MaxMtime == 1
\* longest conversion, in seconds
MaxDur == 1

VARIABLES
    n_model,              \* args.n_model
    n_inp_sample,         \* args.n_inp_sample
    pyRng,                \* state of python's random stream, seeded with exp_seed
    pc,                   \* position of the script
    results,              \* the results dict: column name -> list
    done,                 \* iterations of the model loop that ran to their end
    model_seed,           \* seed of the current model
    net,                  \* the current SymbolNet
    invalidFor,           \* the current net: candidate position -> forward evaluation invalid
    interval,             \* noise scale, in units of 1 / Scale(n_step)
    sweep,                \* the values v taken by the loop over np.linspace
    init_tensor_samples,  \* the candidate sequence of the current model
    now,                  \* time.time(): a logical clock, one tick per evaluation call
    strt_time,
    try_times_v3,
    succ_v3,
    try_times_grad,
    succ_grad,
    it,                   \* candidates consumed by the for loop being run
    fwdCalls,             \* history: arguments and outcomes of net(...) for the current model
    gradCalls,            \* history: arguments and outcomes of net.grad_input_gen(...)
    raised,               \* the exception that ended the run, "" if none
    csv,                  \* the file written by to_csv: <<>> before, <<table>> after
    firstRun,             \* outcome of the v3 search that is being run again, <<>> if none is
    \* experiments/lemon_tf2onnx.py
    cpc,                  \* position of the conversion script
    time_list,            \* st_mtime of the files found, in the order rglob yields them
    tlimit,               \* args.tlimit
    idx,                  \* the ranking time_arr.argsort()
    time_diffs,           \* np.diff(np.sort(time_arr))
    ci,                   \* iterations of the conversion loop that were run
    elapsed,              \* time.time() - cvt_start_time
    config_file,          \* the lines written to gentime.csv
    cvtLog                \* history: file, exit code and duration of each conversion

argVars == <<n_model, n_inp_sample>>
tableVars == <<results, done>>
modelVars == <<model_seed, net, invalidFor>>
sampleVars == <<interval, sweep, init_tensor_samples>>
v3Vars == <<try_times_v3, succ_v3>>
gradVars == <<try_times_grad, succ_grad>>
histVars == <<fwdCalls, gradCalls>>
vars == <<argVars, pyRng, pc, tableVars, modelVars, sampleVars, now, strt_time,
          v3Vars, gradVars, it, histVars, raised, csv, firstRun>>
convVars == <<cpc, time_list, tlimit, idx, time_diffs, ci, elapsed, config_file, cvtLog>>
allVars == <<vars, convVars>>

(* ----------------------------- helpers -------------------------------- *)
Columns == {"model_seed", "n_nodes", "v3-time", "v3-try", "v3-succ",
            "grad-time", "grad-try", "grad-succ"}

EmptyResults == [c \in Columns |-> <<>>]

\* results[col].append(x)
AppendTo(tbl, col, x) == [tbl EXCEPT ![col] = Append(@, x)]

Max(a, b) == IF a >= b THEN a ELSE b

\* the common denominator of every real of a run with n_step samples
Scale(n) == n * Max(n - 1, 1) * NoiseRes

\* Linspace with the stop value left out (endpoint=False)
LinspaceNoEndpoint(n) ==
    [i \in 1..n |-> -Scale(n) + (i - 1) * ((2 * Scale(n)) \div n)]

\* np.linspace(-1, 1, n): n = 1 yields the start alone, otherwise n points
\* start + i * (2 / (n - 1)), the last one being the stop value
Linspace(n) ==
    [i \in 1..n |->
        IF n = 1 THEN -Scale(n)
        ELSE -Scale(n) + (i - 1) * ((2 * Scale(n)) \div (n - 1))]

\* random.getrandbits on a stream in state s, and the state it leaves
GetRandBits(s) == s
RngNext(s) == (s + 1) % (MaxSeed + 1)

\* number of elements of the tensors of slots 1..k
RECURSIVE NumelUpTo(_, _)
NumelUpTo(info, k) == IF k = 0 THEN 0 ELSE info[k] + NumelUpTo(info, k - 1)

\* torch.rand(shape) * interval, the d-th .. values of a stream entered at s
RandTimes(numel, s, d, ivl) ==
    [e \in 1..numel |-> (((s + d + e - 1) % NoiseRes) * ivl) \div NoiseRes]

\* [v + torch.rand(ii.op.shape) * interval for ii in net.input_info]
InitTensors(v, info, s, d, ivl) ==
    [j \in 1..Len(info) |->
        [e \in 1..info[j] |->
            v + RandTimes(info[j], s, d + NumelUpTo(info, j - 1), ivl)[e]]]

\* random_model_gen and SymbolNet are deterministic in the seed: the graph
\* of seed s has s + 1 nodes, all of them inputs, the j-th of j elements
NodesOf(seed) == seed + 1
InputInfo(seed) == [j \in 1..NodesOf(seed) |-> j]

\* what net.grad_input_gen can do on a candidate: return inputs ("sat"),
\* return None ("none"), raise the RuntimeError of a non-differentiable op
\* ("nograd") or raise anything else ("err").  A candidate that already
\* evaluates without invalid values is a satisfying input itself, so the
\* search from it does not come back empty.
GradOutcomes(invalid) ==
    IF invalid THEN {"sat", "none", "nograd", "err"} ELSE {"sat", "nograd", "err"}

\* IntervalOf as the width of the swept range over n_step
IntervalOfRange(n) == (2 * Scale(n)) \div n

\* line 66: interval = 1 / n_step
IntervalOf(n) == Scale(n) \div n

\* GradPos for a loop that takes the candidates last to first
GradPosReversed(i, n) == n + 1 - i

\* lines 79 and 95: the position of the candidate the i-th iteration of a
\* for loop over init_tensor_samples takes
V3Pos(i, n) == i
GradPos(i, n) == i

\* GradTry counting every candidate twice
GradTryDouble(t) == t + 2

\* GradTry without the increment
GradTryStuck(t) == t

\* lines 80 and 96: the attempt counters
V3Try(t) == t + 1
GradTry(t) == t + 1

\* V3Valid with the negation dropped
V3ValidInverted(flag) == flag

\* line 82: if not net.invalid_found_last
V3Valid(flag) == ~flag

\* V3LoopEnds without the break
V3LoopEndsNoBreak(flag, i, n) == i = n

\* lines 79 and 82-84: the v3 loop ends on a valid evaluation (break) or
\* with the last candidate
V3LoopEnds(flag, i, n) == V3Valid(flag) \/ i = n

\* GradLoopEnds without the break
GradLoopEndsNoBreak(o, i, n) == i = n

\* lines 95 and 107-109: the gradient loop ends on a returned input (break)
\* or with the last candidate
GradLoopEnds(o, i, n) == o = "sat" \/ i = n

\* the fallback with one of its two assignments missing
FallbackSuccKept(sv3, sgrad) == sgrad
FallbackTryKept(tv3, tgrad) == tgrad

\* lines 103-104: the fallback to the outcome of v3
FallbackSucc(sv3, sgrad) == sv3
FallbackTry(tv3, tgrad) == tv3

\* RecordV3 put off: nothing is appended before the gradient search
RecordV3Deferred(tbl, d, t, sc) == tbl

\* lines 86-88
RecordV3(tbl, d, t, sc) ==
    AppendTo(AppendTo(AppendTo(tbl, "v3-time", d), "v3-try", t), "v3-succ", sc)

\* RecordGrad that stores the time in place of the previous one
RecordGradOverwrite(tbl, sc, t, d) ==
    [AppendTo(AppendTo(tbl, "grad-succ", sc), "grad-try", t)
        EXCEPT !["grad-time"] = IF @ = <<>> THEN <<d>> ELSE [@ EXCEPT ![Len(@)] = d]]

\* lines 112-114
RecordGrad(tbl, sc, t, d) ==
    AppendTo(AppendTo(AppendTo(tbl, "grad-succ", sc), "grad-try", t), "grad-time", d)

(* ------------------------------- Init --------------------------------- *)
\* the harness before its first statement, arguments aside
HarnessStart ==
    /\ results = EmptyResults
    /\ done = 0
    /\ model_seed = 0
    /\ net = [n_nodes |-> 0, input_info |-> <<>>,
              check_intermediate_numeric |-> FALSE, invalid_found_last |-> FALSE]
    /\ invalidFor = <<>>
    /\ interval = 0
    /\ sweep = <<>>
    /\ init_tensor_samples = <<>>
    /\ now = 0
    /\ strt_time = 0
    /\ try_times_v3 = 0
    /\ succ_v3 = FALSE
    /\ try_times_grad = 0
    /\ succ_grad = FALSE
    /\ it = 0
    /\ fwdCalls = <<>>
    /\ gradCalls = <<>>
    /\ raised = ""
    /\ csv = <<>>
    /\ firstRun = <<>>

\* the conversion script is not run
ConvIdle ==
    /\ cpc = "idle"
    /\ time_list = <<>>
    /\ tlimit = 0
    /\ idx = <<>>
    /\ time_diffs = <<>>
    /\ ci = 0
    /\ elapsed = 0
    /\ config_file = <<>>
    /\ cvtLog = <<>>

Init ==
    /\ n_model \in 0..MaxModel
    /\ n_inp_sample \in 1..MaxSample
    /\ n_model * n_inp_sample <= MaxEvals
    /\ pyRng \in 0..MaxSeed
    /\ pc = "loop"
    /\ HarnessStart
    /\ ConvIdle

\* MoreModels for a loop over range(n_model - 1)
MoreModelsOneShort(d, n) == d < n - 1

\* line 54: for _ in range(args.n_model), after d iterations
MoreModels(d, n) == d < n

(* ------------------- the model loop, lines 54-116 --------------------- *)
\* lines 55-62: draw the seed, generate the graph, build the net and append
\* the two metadata columns
GenModel ==
    /\ pc = "loop"
    /\ MoreModels(done, n_model)
    /\ model_seed' = GetRandBits(pyRng)
    /\ pyRng' = RngNext(pyRng)
    /\ net' = [n_nodes |-> NodesOf(model_seed'),
               input_info |-> InputInfo(model_seed'),
               check_intermediate_numeric |-> FALSE,
               invalid_found_last |-> FALSE]
    /\ results' = AppendTo(AppendTo(results, "n_nodes", net'.n_nodes),
                           "model_seed", model_seed')
    /\ invalidFor' \in [1..n_inp_sample -> BOOLEAN]
    /\ fwdCalls' = <<>>
    /\ gradCalls' = <<>>
    /\ pc' = "sample"
    /\ UNCHANGED <<argVars, convVars, firstRun, done, sampleVars, now, strt_time, v3Vars, gradVars,
                   it, raised, csv>>

\* lines 55-59 when random_model_gen or SymbolNet raises: nothing catches it
GenRaise ==
    /\ pc = "loop"
    /\ MoreModels(done, n_model)
    /\ model_seed' = GetRandBits(pyRng)
    /\ pyRng' = RngNext(pyRng)
    /\ raised' = "gen"
    /\ pc' = "aborted"
    /\ UNCHANGED <<argVars, convVars, firstRun, tableVars, net, invalidFor, sampleVars, now, strt_time,
                   v3Vars, gradVars, it, histVars, csv>>

\* lines 64-70: the candidate sequence; s is the position of torch's random
\* stream when the loop is entered
Sample ==
    /\ pc = "sample"
    /\ LET n_step == n_inp_sample
           ivl == IntervalOf(n_step)
           info == net.input_info
           per == NumelUpTo(info, Len(info))
       IN /\ interval' = ivl
          /\ sweep' = Linspace(n_step)
          /\ \E s \in 0..(NoiseRes - 1) :
                init_tensor_samples' =
                    [i \in 1..n_step |->
                        InitTensors(Linspace(n_step)[i], info, s, (i - 1) * per, ivl)]
    /\ pc' = "v3_start"
    /\ UNCHANGED <<argVars, convVars, firstRun, pyRng, tableVars, modelVars, now, strt_time, v3Vars,
                   gradVars, it, histVars, raised, csv>>

\* EnableCheck left out
EnableCheckOmitted(nt) == nt

\* line 77: net.check_intermediate_numeric = True
EnableCheck(nt) == [nt EXCEPT !.check_intermediate_numeric = TRUE]

\* lines 73-78
V3Start ==
    /\ pc = "v3_start"
    /\ strt_time' = now
    /\ succ_v3' = FALSE
    /\ try_times_v3' = 0
    /\ net' = EnableCheck(net)
    /\ it' = 0
    /\ pc' = "v3_loop"
    /\ UNCHANGED <<argVars, convVars, firstRun, pyRng, tableVars, model_seed, invalidFor, sampleVars,
                   now, gradVars, histVars, raised, csv>>

\* net(*init_tensors): the flag the evaluation of candidate i leaves
Forward(i) ==
    IF net.check_intermediate_numeric THEN invalidFor[i] ELSE net.invalid_found_last

\* lines 79-84, one iteration of the loop whose call returns
V3Step ==
    /\ pc = "v3_loop"
    /\ it < Len(init_tensor_samples)
    /\ try_times_v3' = V3Try(try_times_v3)
    /\ LET pos == V3Pos(it + 1, Len(init_tensor_samples))
           flag == Forward(pos)
       IN /\ net' = [net EXCEPT !.invalid_found_last = flag]
          /\ fwdCalls' = Append(fwdCalls, [arg |-> init_tensor_samples[pos],
                                           checked |-> net.check_intermediate_numeric,
                                           invalid |-> flag])
          /\ succ_v3' = IF V3Valid(flag) THEN TRUE ELSE succ_v3
          /\ pc' = IF V3LoopEnds(flag, it + 1, Len(init_tensor_samples))
                   THEN "v3_done" ELSE "v3_loop"
    /\ it' = it + 1
    /\ now' = now + 1
    /\ UNCHANGED <<argVars, convVars, firstRun, pyRng, tableVars, model_seed, invalidFor, sampleVars,
                   strt_time, succ_grad, try_times_grad, gradCalls, raised, csv>>

\* lines 79-81 when the evaluation raises: nothing catches it
V3Raise ==
    /\ pc = "v3_loop"
    /\ it < Len(init_tensor_samples)
    /\ try_times_v3' = V3Try(try_times_v3)
    /\ it' = it + 1
    /\ now' = now + 1
    /\ raised' = "forward"
    /\ pc' = "aborted"
    /\ UNCHANGED <<argVars, convVars, firstRun, pyRng, tableVars, modelVars, sampleVars, strt_time,
                   succ_v3, gradVars, histVars, csv>>

\* lines 86-94: the v3 columns, then the start of the gradient search
V3Record ==
    /\ pc = "v3_done"
    /\ results' = RecordV3(results, now - strt_time, try_times_v3, succ_v3)
    /\ strt_time' = now
    /\ succ_grad' = FALSE
    /\ try_times_grad' = 0
    /\ it' = 0
    /\ pc' = "grad_loop"
    /\ UNCHANGED <<argVars, convVars, firstRun, pyRng, done, modelVars, sampleVars, now, v3Vars,
                   histVars, raised, csv>>

\* lines 95-99 and 107-109: an iteration whose call returns inputs or None
GradStep ==
    /\ pc = "grad_loop"
    /\ it < Len(init_tensor_samples)
    /\ try_times_grad' = GradTry(try_times_grad)
    /\ LET pos == GradPos(it + 1, Len(init_tensor_samples))
       IN \E o \in GradOutcomes(invalidFor[pos]) \cap {"sat", "none"} :
          /\ gradCalls' = Append(gradCalls, [arg |-> init_tensor_samples[pos],
                                             outcome |-> o])
          /\ net' = [net EXCEPT !.invalid_found_last = (o = "none")]
          /\ succ_grad' = IF o = "sat" THEN TRUE ELSE succ_grad
          /\ pc' = IF GradLoopEnds(o, it + 1, Len(init_tensor_samples))
                   THEN "grad_done" ELSE "grad_loop"
    /\ it' = it + 1
    /\ now' = now + 1
    /\ UNCHANGED <<argVars, convVars, firstRun, pyRng, tableVars, model_seed, invalidFor, sampleVars,
                   strt_time, v3Vars, fwdCalls, raised, csv>>

\* lines 100-105: the RuntimeError of a graph that is not differentiable
GradFallback ==
    /\ pc = "grad_loop"
    /\ it < Len(init_tensor_samples)
    /\ LET pos == GradPos(it + 1, Len(init_tensor_samples))
       IN /\ "nograd" \in GradOutcomes(invalidFor[pos])
          /\ gradCalls' = Append(gradCalls, [arg |-> init_tensor_samples[pos],
                                             outcome |-> "nograd"])
    /\ net' = [net EXCEPT !.invalid_found_last = TRUE]
    /\ succ_grad' = FallbackSucc(succ_v3, succ_grad)
    /\ try_times_grad' = FallbackTry(try_times_v3, GradTry(try_times_grad))
    /\ it' = it + 1
    /\ now' = now + 1
    /\ pc' = "grad_done"
    /\ UNCHANGED <<argVars, convVars, firstRun, pyRng, tableVars, model_seed, invalidFor, sampleVars,
                   strt_time, v3Vars, fwdCalls, raised, csv>>

\* GradRaise with the exception swallowed (a bare "break" in the handler)
GradRaiseSwallowed ==
    /\ pc = "grad_loop"
    /\ it < Len(init_tensor_samples)
    /\ LET pos == GradPos(it + 1, Len(init_tensor_samples))
       IN /\ "err" \in GradOutcomes(invalidFor[pos])
          /\ gradCalls' = Append(gradCalls, [arg |-> init_tensor_samples[pos],
                                             outcome |-> "err"])
    /\ net' = [net EXCEPT !.invalid_found_last = TRUE]
    /\ try_times_grad' = GradTry(try_times_grad)
    /\ it' = it + 1
    /\ now' = now + 1
    /\ pc' = "grad_done"
    /\ UNCHANGED <<argVars, convVars, firstRun, pyRng, tableVars, model_seed, invalidFor,
                   sampleVars, strt_time, v3Vars, succ_grad, fwdCalls, raised, csv>>

\* lines 100-106: any other exception is raised again and ends the run
GradRaise ==
    /\ pc = "grad_loop"
    /\ it < Len(init_tensor_samples)
    /\ LET pos == GradPos(it + 1, Len(init_tensor_samples))
       IN /\ "err" \in GradOutcomes(invalidFor[pos])
          /\ gradCalls' = Append(gradCalls, [arg |-> init_tensor_samples[pos],
                                             outcome |-> "err"])
    /\ net' = [net EXCEPT !.invalid_found_last = TRUE]
    /\ try_times_grad' = GradTry(try_times_grad)
    /\ it' = it + 1
    /\ now' = now + 1
    /\ raised' = "grad"
    /\ pc' = "aborted"
    /\ UNCHANGED <<argVars, convVars, firstRun, pyRng, tableVars, model_seed, invalidFor, sampleVars,
                   strt_time, v3Vars, succ_grad, fwdCalls, csv>>

\* lines 112-114, the end of an iteration of the model loop
GradRecord ==
    /\ pc = "grad_done"
    /\ results' = RecordGrad(results, succ_grad, try_times_grad, now - strt_time)
    /\ done' = done + 1
    /\ pc' = "loop"
    /\ UNCHANGED <<argVars, convVars, firstRun, pyRng, modelVars, sampleVars, now, strt_time, v3Vars,
                   gradVars, it, histVars, raised, csv>>

\* WriteCsv reached from inside the loop: the table is written when the
\* first iteration is over and the run ends there
WriteCsvEarly ==
    /\ pc = "loop"
    /\ (done >= 1 \/ ~MoreModels(done, n_model))
    /\ csv' = Append(csv, results)
    /\ pc' = "done"
    /\ UNCHANGED <<argVars, convVars, firstRun, pyRng, tableVars, modelVars, sampleVars, now,
                   strt_time, v3Vars, gradVars, it, histVars, raised>>

\* line 116
WriteCsv ==
    /\ pc = "loop"
    /\ ~MoreModels(done, n_model)
    /\ csv' = Append(csv, results)
    /\ pc' = "done"
    /\ UNCHANGED <<argVars, convVars, firstRun, pyRng, tableVars, modelVars, sampleVars, now, strt_time,
                   v3Vars, gradVars, it, histVars, raised>>

Next ==
    \/ GenModel
    \/ GenRaise
    \/ Sample
    \/ V3Start
    \/ V3Step
    \/ V3Raise
    \/ V3Record
    \/ GradStep
    \/ GradFallback
    \/ GradRaise
    \/ GradRecord
    \/ WriteCsv

Spec == Init /\ [][Next]_allVars

\* the script runs on while it has a statement to run: every call into the
\* collaborators returns or raises
FairSpec == Spec /\ WF_allVars(Next)

(* ---------- the v3 search run a second time on the same net ------------ *)
\* lines 72-84 entered again once a model's iteration is over, with the net
\* and the candidates as the gradient search left them
ReplayStart ==
    /\ pc = "loop"
    /\ done >= 1
    /\ firstRun = <<>>
    /\ firstRun' = <<[succ |-> succ_v3, try |-> try_times_v3,
                      flag |-> net.invalid_found_last]>>
    /\ pc' = "v3_start"
    /\ UNCHANGED <<argVars, convVars, pyRng, tableVars, modelVars, sampleVars, now, strt_time,
                   v3Vars, gradVars, it, histVars, raised, csv>>

\* line 84 or the end of the loop of line 79, second run
ReplayEnd ==
    /\ pc = "v3_done"
    /\ firstRun # <<>>
    /\ pc' = "replayed"
    /\ UNCHANGED <<argVars, convVars, firstRun, pyRng, tableVars, modelVars, sampleVars, now,
                   strt_time, v3Vars, gradVars, it, histVars, raised, csv>>

\* lines 86-94 of the first run
FirstV3Record == firstRun = <<>> /\ V3Record

NextReplay ==
    \/ GenModel
    \/ GenRaise
    \/ Sample
    \/ V3Start
    \/ V3Step
    \/ V3Raise
    \/ FirstV3Record
    \/ GradStep
    \/ GradFallback
    \/ GradRaise
    \/ GradRecord
    \/ WriteCsv
    \/ ReplayStart
    \/ ReplayEnd

SpecReplay == Init /\ [][NextReplay]_allVars

(* =============== experiments/lemon_tf2onnx.py, lines 94-169 ============ *)
\* sum of the first k elements of a sequence: seq[:k].sum()
RECURSIVE SumTo(_, _)
SumTo(seq, k) == IF k = 0 THEN 0 ELSE seq[k] + SumTo(seq, k - 1)

MinOf(seq) == CHOOSE m \in {seq[k] : k \in 1..Len(seq)} :
                 \A k \in 1..Len(seq) : m <= seq[k]

\* line 117-118: time_arr, the mtimes counted from the earliest one
TimeArr(tl) == [k \in 1..Len(tl) |-> tl[k] - MinOf(tl)]

\* Rankings that leave the files in the order rglob found them
RankingsUnsorted(arr) == {[k \in 1..Len(arr) |-> k]}

\* line 119: the results argsort can give: the permutations that put
\* time_arr in ascending order (files of equal mtime in any order)
Rankings(arr) ==
    {p \in [1..Len(arr) -> 1..Len(arr)] :
        /\ \A a, b \in 1..Len(arr) : a # b => p[a] # p[b]
        /\ \A a \in 1..(Len(arr) - 1) : arr[p[a]] <= arr[p[a + 1]]}

\* line 127: np.diff(np.sort(time_arr)), given a ranking p of arr
Diffs(arr, p) == [k \in 1..(Len(arr) - 1) |-> arr[p[k + 1]] - arr[p[k]]]

\* lines 150-155 and 160-163: the first field of the line of the i-th file
\* (i counted from 0): time_diffs.mean() or time_diffs[i - 1], plus the
\* conversion time; a fraction <<numerator, denominator>>, "nan" for the
\* mean of no difference
GenCost(i, diffs, cvt_time) ==
    IF i = 0
    THEN IF Len(diffs) = 0 THEN "nan"
         ELSE <<SumTo(diffs, Len(diffs)) + cvt_time * Len(diffs), Len(diffs)>>
    ELSE <<diffs[i] + cvt_time, 1>>

\* line 134: to_name
ToName(file) == <<file, ".onnx">>

\* LineName that never reports a failure
LineNameAlways(file, exitcode) == ToName(file)

\* lines 144-163: the second field of the line
LineName(file, exitcode) == IF exitcode = 0 THEN ToName(file) ELSE "FAILURE"

\* OverLimit with >= for >
OverLimitAtLeast(i, diffs, el, lim) == SumTo(diffs, i) + el >= lim

\* line 166, after the i-th file (i counted from 0)
OverLimit(i, diffs, el, lim) == SumTo(diffs, i) + el > lim

\* the exit codes of the conversion process: success, failure
ExitCodes == {0, 1}

\* the files found (line 114 asserts there is one, line 124 that their
\* mtimes span less than 25 hours) and the time limit
InitConvert ==
    /\ n_model = 0
    /\ n_inp_sample = 1
    /\ pyRng = 0
    /\ pc = "idle"
    /\ HarnessStart
    /\ cpc = "rank"
    /\ \E n \in 1..MaxFiles : time_list \in [1..n -> 0..MaxMtime]
    /\ tlimit \in 0..(MaxMtime + MaxDur)
    /\ idx = <<>>
    /\ time_diffs = <<>>
    /\ ci = 0
    /\ elapsed = 0
    /\ config_file = <<>>
    /\ cvtLog = <<>>

\* lines 117-129
Rank ==
    /\ cpc = "rank"
    /\ \E p \in Rankings(TimeArr(time_list)) :
          /\ idx' = p
          /\ time_diffs' = Diffs(TimeArr(time_list), p)
    /\ cpc' = "convert"
    /\ UNCHANGED <<vars, time_list, tlimit, ci, elapsed, config_file, cvtLog>>

\* lines 131-168: one iteration, the conversion taking cvt_time seconds and
\* its process ending with the given exit code
Convert ==
    /\ cpc = "convert"
    /\ ci < Len(time_list)
    /\ \E exitcode \in ExitCodes, cvt_time \in 0..MaxDur :
          LET from_path == idx[ci + 1]
          IN /\ config_file' = Append(config_file,
                     [cost |-> GenCost(ci, time_diffs, cvt_time),
                      name |-> LineName(from_path, exitcode)])
             /\ cvtLog' = Append(cvtLog, [file |-> from_path, exitcode |-> exitcode,
                                          cvt_time |-> cvt_time])
             /\ elapsed' = elapsed + cvt_time
             /\ cpc' = IF OverLimit(ci, time_diffs, elapsed', tlimit)
                          \/ ci + 1 = Len(time_list)
                       THEN "close" ELSE "convert"
    /\ ci' = ci + 1
    /\ UNCHANGED <<vars, time_list, tlimit, idx, time_diffs>>

\* line 169
Close ==
    /\ cpc = "close"
    /\ cpc' = "closed"
    /\ UNCHANGED <<vars, time_list, tlimit, idx, time_diffs, ci, elapsed,
                   config_file, cvtLog>>

NextConvert ==
    \/ Rank
    \/ Convert
    \/ Close

SpecConvert == InitConvert /\ [][NextConvert]_allVars

(* ------------------------------ claims -------------------------------- *)
Rows(col) == Len(results[col])
LastOf(col) == results[col][Len(results[col])]

\* the row of the current model holds its v3 columns / its grad columns
V3Recorded == Rows("v3-try") > 0 /\ Rows("v3-try") = Rows("model_seed")
GradRecorded == Rows("grad-try") > 0 /\ Rows("grad-try") = Rows("model_seed")

\* the candidate sequence of the current model has been built
Sampled == pc \in {"v3_start", "v3_loop", "v3_done", "grad_loop", "grad_done"}

\* position of the first candidate the net evaluates without invalid value,
\* the number of candidates if there is none
FirstValidPos ==
    IF \E i \in 1..n_inp_sample : ~invalidFor[i]
    THEN CHOOSE i \in 1..n_inp_sample :
            ~invalidFor[i] /\ \A j \in 1..(i - 1) : invalidFor[j]
    ELSE n_inp_sample

\* position of the first candidate for which grad_input_gen returned inputs
FirstSatPos ==
    CHOOSE i \in 1..Len(gradCalls) :
        /\ gradCalls[i].outcome = "sat"
        /\ \A j \in 1..(i - 1) : gradCalls[j].outcome # "sat"

NoGradRaised == \E i \in 1..Len(gradCalls) : gradCalls[i].outcome = "nograd"

IsPrefix(a, b) == Len(a) <= Len(b) /\ \A i \in 1..Len(a) : a[i] = b[i]

\* C1: the attempt count recorded for Blind Search (v3-try) is the position
\* of the first candidate whose forward evaluation leaves the invalid flag
\* false, and the number of candidates when no candidate is valid.
C1_BlindAttemptCount ==
    V3Recorded => LastOf("v3-try") = FirstValidPos

C1_Witness ==
    /\ V3Recorded
    /\ n_inp_sample >= 3
    /\ invalidFor[1] /\ ~invalidFor[2]
    /\ LastOf("v3-try") = 2

\* C2: when grad_input_gen raises the non-differentiability error on attempt
\* k, no further gradient call is made for that graph, and the recorded
\* grad-succ and grad-try are the recorded v3-succ and v3-try, whatever k.
C2_FallbackLaw ==
    /\ \A i \in 1..Len(gradCalls) :
          gradCalls[i].outcome = "nograd" => i = Len(gradCalls)
    /\ (GradRecorded /\ NoGradRaised) =>
          /\ LastOf("grad-succ") = LastOf("v3-succ")
          /\ LastOf("grad-try") = LastOf("v3-try")

C2_Witness ==
    /\ GradRecorded
    /\ Len(gradCalls) = 2
    /\ gradCalls[2].outcome = "nograd"
    /\ LastOf("v3-succ")
    /\ LastOf("v3-try") = 3
    /\ LastOf("grad-try") = 3

C5_AbortLeavesNoEntry ==
    raised \in {"forward", "grad"} => \A c \in Columns : Rows(c) = done

\* C5 amended: when an unexpected error is raised during the search for a
\* model, the run ends without a complete row for that model and without
\* writing the table: model_seed and n_nodes hold the model's entry, the v3
\* columns hold it exactly when the error came from the gradient search, the
\* grad columns never do, and the step that raises leaves every entry of the
\* table as it was.
C5_AbortLeavesPartialRow ==
    /\ [](raised \in {"forward", "grad"} =>
            /\ \A c \in {"model_seed", "n_nodes"} : Rows(c) = done + 1
            /\ \A c \in {"v3-time", "v3-try", "v3-succ"} :
                  Rows(c) = IF raised = "grad" THEN done + 1 ELSE done
            /\ \A c \in {"grad-time", "grad-try", "grad-succ"} : Rows(c) = done
            /\ csv = <<>>)
    /\ [][raised' # "" => results' = results]_vars

C5_Witness ==
    /\ raised = "grad"
    /\ done = 1
    /\ Rows("v3-try") = 2
    /\ Rows("grad-try") = 1

\* C6: the table starts empty; whenever the model loop is between two
\* iterations (or has ended) all eight columns have as many entries as
\* iterations were completed; and no step changes or removes an entry
\* appended before.
C6_AppendOnlyTable ==
    /\ \A c \in Columns : results[c] = <<>>
    /\ [](pc \in {"loop", "done"} => \A c \in Columns : Rows(c) = done)
    /\ [][\A c \in Columns : IsPrefix(results[c], results'[c])]_vars

C6_Witness ==
    /\ pc = "loop"
    /\ done = 2
    /\ \A c \in Columns : Rows(c) = 2

\* the sampler's output but for the value of the last center
SamplerShape ==
    /\ Len(init_tensor_samples) = n_inp_sample
    /\ Len(sweep) = n_inp_sample
    /\ sweep[1] = -Scale(n_inp_sample)
    /\ \A i \in 1..(n_inp_sample - 1) : sweep[i] < sweep[i + 1]
    /\ \A i \in 1..(n_inp_sample - 2) :
          sweep[i + 1] - sweep[i] = sweep[i + 2] - sweep[i + 1]
    /\ \A i \in 1..n_inp_sample :
          /\ Len(init_tensor_samples[i]) = Len(net.input_info)
          /\ \A j \in 1..Len(net.input_info) :
                Len(init_tensor_samples[i][j]) = net.input_info[j]

\* C7 as stated: for every n_samples >= 1 the sampler yields n_samples
\* assignments in ascending order of center, the centers equally spaced with
\* first center -1 and last center 1, one tensor per declared input.
C7_SweepCoversInterval ==
    Sampled => (SamplerShape /\ sweep[n_inp_sample] = Scale(n_inp_sample))

\* C7 amended: as stated for every n_samples >= 2; for n_samples = 1 the one
\* center is -1 and the value 1 is not swept.
C7_SweepCoversIntervalFromTwo ==
    Sampled =>
        /\ SamplerShape
        /\ n_inp_sample >= 2 => sweep[n_inp_sample] = Scale(n_inp_sample)
        /\ n_inp_sample = 1 => sweep = <<-Scale(1)>>

C7_Witness ==
    /\ Sampled
    /\ n_inp_sample = 3
    /\ sweep[2] = 0
    /\ sweep[3] = Scale(3)
    /\ Len(net.input_info) = 2

\* every element of every candidate is its center plus a noise in [0, w)
NoiseWithin(w) ==
    \A i \in 1..Len(init_tensor_samples) :
        \A j \in 1..Len(init_tensor_samples[i]) :
            \A e \in 1..Len(init_tensor_samples[i][j]) :
                /\ init_tensor_samples[i][j][e] - sweep[i] >= 0
                /\ init_tensor_samples[i][j][e] - sweep[i] < w

C9_GradAfterBlindSameOrder ==
    /\ gradCalls # <<>> => V3Recorded
    /\ \A i \in 1..Len(fwdCalls) : fwdCalls[i].arg = init_tensor_samples[i]
    /\ \A i \in 1..Len(gradCalls) : gradCalls[i].arg = init_tensor_samples[i]
    /\ \A i \in 1..Len(gradCalls) :
          i <= Len(fwdCalls) => gradCalls[i].arg = fwdCalls[i].arg

C9_Witness ==
    /\ Len(gradCalls) = 2
    /\ Len(fwdCalls) = 3
    /\ gradCalls[2].arg = fwdCalls[2].arg
    /\ gradCalls[1].arg # gradCalls[2].arg

\* C10: when the non-differentiability error is never raised, Gradient
\* Search records success with the position of the first candidate for
\* which grad_input_gen returns inputs and calls it for no later candidate;
\* it records (False, n) when None is returned for all n candidates.
C10_GradSearchOutcome ==
    /\ \A i \in 1..Len(gradCalls) :
          gradCalls[i].outcome = "sat" => i = Len(gradCalls)
    /\ (GradRecorded /\ ~NoGradRaised) =>
          IF \E i \in 1..Len(gradCalls) : gradCalls[i].outcome = "sat"
          THEN /\ LastOf("grad-succ")
               /\ LastOf("grad-try") = FirstSatPos
               /\ Len(gradCalls) = FirstSatPos
          ELSE /\ ~LastOf("grad-succ")
               /\ LastOf("grad-try") = n_inp_sample
               /\ Len(gradCalls) = n_inp_sample

C10_Witness ==
    /\ GradRecorded
    /\ Len(gradCalls) = 3
    /\ gradCalls[1].outcome = "none"
    /\ gradCalls[3].outcome = "sat"
    /\ LastOf("grad-try") = 3
    /\ LastOf("grad-succ")

\* C11 as stated: the gradient attempt counter goes up by one per candidate
\* consumed, and the recorded grad-try is the number of candidates on which
\* grad_input_gen was called.
C11_GradTryCountsCalls ==
    /\ pc = "grad_loop" => try_times_grad = Len(gradCalls)
    /\ GradRecorded => LastOf("grad-try") = Len(gradCalls)

\* C11 amended: the counter goes up by one per candidate consumed, and the
\* recorded grad-try is the number of calls of grad_input_gen unless the
\* non-differentiability error was raised; after that error the recorded
\* grad-try is v3-try, whatever the number of calls.
C11_GradTryCountsCallsUnlessFallback ==
    /\ pc = "grad_loop" => (try_times_grad = Len(gradCalls) /\ it = Len(gradCalls))
    /\ (GradRecorded /\ ~NoGradRaised) => LastOf("grad-try") = Len(gradCalls)
    /\ (GradRecorded /\ NoGradRaised) => LastOf("grad-try") = LastOf("v3-try")

C11_Witness ==
    /\ GradRecorded
    /\ ~NoGradRaised
    /\ Len(gradCalls) = 2
    /\ LastOf("grad-try") = 2
    /\ LastOf("v3-try") = 3

\* C12: a second run of the v3 search on the same net and the same
\* candidates ends with the success flag and the attempt count of the first
\* run, whatever value invalid_found_last had when the second run began.
C12_BlindSearchIdempotent ==
    pc = "replayed" =>
        /\ succ_v3 = firstRun[1].succ
        /\ try_times_v3 = firstRun[1].try

C12_Witness ==
    /\ pc = "replayed"
    /\ firstRun[1].flag
    /\ firstRun[1].succ
    /\ firstRun[1].try = 2
    /\ try_times_v3 = 2

\* C13: the table is written at most once, only when all n_model iterations
\* are over, and then with n_model rows; a run that has ended normally has
\* written it once and a run ended by an exception has written nothing.
C13_WrittenOnceAtEnd ==
    /\ Len(csv) <= 1
    /\ csv # <<>> =>
          /\ pc = "done"
          /\ done = n_model
          /\ \A c \in Columns : Len(csv[1][c]) = n_model
    /\ pc = "done" => Len(csv) = 1
    /\ raised # "" => csv = <<>>

C13_Witness ==
    /\ pc = "done"
    /\ n_model = 2
    /\ Len(csv) = 1
    /\ \A c \in Columns : Len(csv[1][c]) = 2

\* C14: every forward evaluation of the v3 search is made with checking of
\* intermediate values enabled, the i-th evaluation takes the i-th
\* candidate, so each candidate is evaluated at most once, and an
\* evaluation that leaves the invalid flag false is the last one made for
\* the graph.
C14_BlindShortCircuit ==
    /\ Len(fwdCalls) <= n_inp_sample
    /\ \A i \in 1..Len(fwdCalls) :
          /\ fwdCalls[i].checked
          /\ fwdCalls[i].arg = init_tensor_samples[i]
          /\ ~fwdCalls[i].invalid => i = Len(fwdCalls)

C14_Witness ==
    /\ GradRecorded
    /\ pc = "loop"
    /\ n_inp_sample = 4
    /\ Len(fwdCalls) = 2
    /\ fwdCalls[1].invalid
    /\ ~fwdCalls[2].invalid

\* C15: an exception of grad_input_gen other than the non-differentiability
\* error is never turned into an outcome: the call that raised it is the
\* last gradient call, the run is ended with that exception, the grad
\* columns get no entry for the model, and no step follows (no candidate is
\* evaluated, no model generated or searched, nothing written).
C15_OtherErrorPropagates ==
    /\ [](\A i \in 1..Len(gradCalls) :
            gradCalls[i].outcome = "err" =>
                (i = Len(gradCalls) /\ raised = "grad" /\ pc = "aborted"))
    /\ [](raised = "grad" =>
            /\ gradCalls # <<>> /\ gradCalls[Len(gradCalls)].outcome = "err"
            /\ \A c \in {"grad-time", "grad-try", "grad-succ"} : Rows(c) = done
            /\ done < n_model
            /\ csv = <<>>)
    /\ [][raised = ""]_vars

C15_Witness ==
    /\ raised = "grad"
    /\ n_model = 3
    /\ done = 1
    /\ Len(gradCalls) = 2
    /\ gradCalls[1].outcome = "none"

\* C16: if every call returns or raises, the run ends; for each model at
\* most n_inp_sample forward evaluations and at most n_inp_sample gradient
\* calls are made, and a run that ends without exception has processed
\* exactly n_model models.
C16_HarnessTerminates ==
    /\ [](/\ it <= n_inp_sample
          /\ Len(fwdCalls) <= n_inp_sample
          /\ Len(gradCalls) <= n_inp_sample
          /\ done <= n_model
          /\ pc = "done" => (done = n_model /\ Rows("model_seed") = n_model))
    /\ <>(pc \in {"done", "aborted"})

C16_Witness ==
    /\ pc = "done"
    /\ n_model = 3
    /\ done = 3
    /\ Len(gradCalls) = n_inp_sample

\* seconds of the budget used when the k-th conversion is over: the time
\* between the generation of the first and of the k-th converted file plus
\* the time the k conversions took
RECURSIVE CvtTimeTo(_)
CvtTimeTo(k) == IF k = 0 THEN 0 ELSE cvtLog[k].cvt_time + CvtTimeTo(k - 1)
Budget(k) == (time_list[cvtLog[k].file] - time_list[cvtLog[1].file]) + CvtTimeTo(k)

\* C17: every file whose conversion was attempted has exactly one line in
\* gentime.csv, the lines are in ascending order of the files' mtimes, a
\* line names the .onnx file when the process exited with 0 and reads
\* FAILURE otherwise, and after a failed conversion the loop goes on unless
\* the time limit is exceeded or no file is left.
C17_OrderedLog ==
    /\ Len(config_file) = ci
    /\ Len(cvtLog) = ci
    /\ \A k \in 1..Len(cvtLog) :
          config_file[k].name =
              IF cvtLog[k].exitcode = 0 THEN ToName(cvtLog[k].file) ELSE "FAILURE"
    /\ \A a, b \in 1..Len(cvtLog) :
          a < b => /\ cvtLog[a].file # cvtLog[b].file
                   /\ time_list[cvtLog[a].file] <= time_list[cvtLog[b].file]
    /\ \A k \in 1..Len(cvtLog) :
          (cvtLog[k].exitcode # 0 /\ k < Len(time_list) /\ Budget(k) <= tlimit)
              => (cpc = "convert" \/ Len(cvtLog) > k)

C17_Witness ==
    /\ cpc = "closed"
    /\ Len(cvtLog) = 3
    /\ cvtLog[1].file = 3
    /\ cvtLog[1].exitcode = 1
    /\ cvtLog[2].exitcode = 0
    /\ config_file[1].name = "FAILURE"
    /\ time_list[cvtLog[1].file] < time_list[cvtLog[3].file]

\* C18: the limit is tested once an item is converted and logged: the first
\* file is always attempted, the loop goes on to a further file only while
\* the budget used is within tlimit, it stops before the files are exhausted
\* only with the budget exceeded, and no step removes or changes a line.
C18_LimitCheckedAfterLogging ==
    /\ [](cpc \in {"close", "closed"} => Len(cvtLog) >= 1)
    /\ [](Len(config_file) = Len(cvtLog))
    /\ [](\A k \in 1..(Len(cvtLog) - 1) : Budget(k) <= tlimit)
    /\ []((Len(cvtLog) >= 1 /\ Budget(Len(cvtLog)) > tlimit) => cpc # "convert")
    /\ [](cpc \in {"close", "closed"} =>
            (Len(cvtLog) = Len(time_list) \/ Budget(Len(cvtLog)) > tlimit))
    /\ [][IsPrefix(config_file, config_file')]_convVars

C18_Witness ==
    /\ cpc = "closed"
    /\ Len(time_list) = 3
    /\ Len(config_file) = 2
    /\ tlimit >= 1
    /\ Budget(1) <= tlimit
    /\ Budget(2) > tlimit

====
